---------------------------- MODULE Spec2Model ----------------------------
(***************************************************************************)
(* Transcript fusion and subtitle interchange of FunClip:                  *)
(*   models/speaker_model.py        SpeakerModel (diarization parsing, the *)
(*                                  time/speaker resolver, fusion with ASR) *)
(*   processors/subtitle_processor.py  SubtitleProcessor (SRT generation,  *)
(*                                  speaker filter, segment merge)         *)
(*   core/base.py, models/asr_model.py  BaseModel, ASRModel (load_model,   *)
(*                                  predict, unload_model)                 *)
(*                                                                         *)
(* Times are integers: whole seconds in the resolver, the fusion, the merge *)
(* and the filter, milliseconds in the SRT generation.  A text is a        *)
(* sequence of one-character strings.  A dict key that is not present is   *)
(* the value Missing.                                                      *)
(* Each component has a specification of its own (SpecResolve, SpecFuse,   *)
(* SpecFuse2, SpecMerge, SpecFilter, SpecSrt, SpecPipeline, SpecParse,     *)
(* SpecParseText, SpecParseTime, SpecRoundTrip, SpecTime, SpecProcess,     *)
(* SpecModel) over the module's variables;                                 *)
(* a specification leaves the other components' variables at their idle   *)
(* values.                                                                 *)
(***************************************************************************)
EXTENDS Integers, Sequences, FiniteSets, TLC

VARIABLES
    \* ---- resolver (SpeakerModel._parse_speaker_result / _find_speaker_for_time)
    raw_result,      \* the diarization producer's raw segment list
    speaker_result,  \* the parsed result (empty before _parse_speaker_result ran)
    utt,             \* the utterance span [start_time, end_time]
    best,            \* the resolver's answer, Missing before it ran
    rpc,             \* "parse" | "find" | "done"
    \* ---- fusion (SpeakerModel.combine_with_asr)
    asr_in,          \* the ASR sentences as the caller supplied them
    heap,            \* the sentence dicts: object id -> fields
    requests,        \* the fusion requests in flight
    fdiar,           \* request -> its speaker_segments
    fpc,             \* request -> "find" | "store" | "return" | "done" | "raised"
    fi,              \* request -> index of the sentence the loop is at
    fspeaker,        \* request -> the local speaker_id
    fout,            \* request -> combined_sentences (object ids)
    \* ---- merge (SubtitleProcessor.merge_segments)
    msentences,      \* the sentences given to merge_segments
    max_gap,         \* kwargs max_gap
    max_duration,    \* kwargs max_duration
    merged_segments, \* the cues emitted so far
    current_segment, \* the open accumulator: <<>> for None, else <<cue>>
    mi,              \* number of sentences the loop has consumed
    mresult,         \* <<>> until merge_segments returns, then <<ProcessingResult>>
    mpc,             \* "loop" | "done"
    \* ---- filter (SubtitleProcessor.filter_by_speaker)
    fsentences,      \* the sentences given to filter_by_speaker
    fkwargs,         \* its kwargs: the "speakers" argument
    fresult,         \* <<>> until it returns, then <<ProcessingResult>>
    \* ---- SRT generation (SubtitleProcessor.generate_srt)
    ssentences,      \* the sentences given to generate_srt
    skwargs,         \* its kwargs: output_path, include_speaker
    srt_file,        \* <<>> while no file is written, then <<its content>>
    sresult,         \* <<>> until it returns, then <<ProcessingResult>>
    \* ---- SRT parsing (SubtitleProcessor.parse_srt_file)
    presult,         \* <<>> until it returns, then <<ProcessingResult>>
    \* ---- timestamps (_srt_time_to_seconds / _seconds_to_srt_time)
    ts_text,         \* a timestamp text
    ts_value,        \* <<>>, then <<its value>>
    ts_back,         \* <<>>, then <<the value as a text again>>
    \* ---- dispatch (SubtitleProcessor.process)
    ptype,           \* kwargs "type" of a call of process, Missing when not given
    oresult,         \* <<>>, then <<the result process built itself>>
    \* ---- model wrappers (BaseModel: ASRModel, SpeakerModel)
    model_class,     \* the class of the object the calls are made on
    model,           \* self.model: NoHandle for None, else the object AutoModel built
    diarization_model, \* self.diarization_model: NoHandle while not assigned
    is_loaded,       \* self.is_loaded
    loads,           \* the number of objects AutoModel has built
    generate_calls,  \* the calls of generate: is_loaded and the handle at each
    returned,        \* the last call and how it ended
    calls            \* the number of calls made

rvars == <<raw_result, speaker_result, utt, best, rpc>>
fvars == <<asr_in, heap, requests, fdiar, fpc, fi, fspeaker, fout>>
mvars == <<msentences, max_gap, max_duration, merged_segments, current_segment, mi,
          mresult, mpc>>
flvars == <<fsentences, fkwargs, fresult>>
tvars == <<ts_text, ts_value, ts_back>>
pvars == <<ptype, oresult>>
lvars == <<model_class, model, diarization_model, is_loaded, loads, generate_calls,
          returned, calls>>
svars == <<ssentences, skwargs, srt_file, sresult, presult, tvars, pvars, lvars>>
vars == <<rvars, fvars, mvars, flvars, svars>>

\* ------------------------------------------------------------------ bounds
MaxTime == 3        \* the resolver's times range over 0..MaxTime
MaxRaw == 3         \* raw diarization segments per result
MaxUtt == 2         \* sentences per ASR transcript given to the fusion
FuseMaxTime == 2    \* the fusion's times range over 0..FuseMaxTime
MaxFuseRaw == 1     \* raw diarization segments behind a fusion's speaker_result
MergeMaxTime == 3   \* the merge's times range over 0..MergeMaxTime
MaxMergeUtt == 3    \* sentences per transcript given to the merge
MaxFilterUtt == 3   \* sentences per transcript given to the filter
MaxWanted == 2      \* entries of the filter's speakers list
MaxSrtUtt == 3      \* sentences per transcript given to generate_srt
MaxPipeUtt == 2     \* sentences per transcript sent through the whole pipeline
MaxPipeRaw == 2     \* raw diarization segments of a pipeline run
MaxRtUtt == 2       \* sentences per transcript written and parsed back
MaxParseBlocks == 3 \* cue blocks of a document given to parse_srt_file
MaxProcUtt == 2     \* sentences per transcript given to process
MaxTextLines == 3   \* text lines of a cue in a parsed document
MaxTimedBlocks == 2 \* cue blocks of a document with timestamps of every kind
MaxCalls == 4       \* calls made on one model object

Times == 0..MaxTime
Missing == "<missing>"      \* a key the dict does not hold / a value not yet set
SpeakerIds == {"spk0", "spk1"}

Min(a, b) == IF a < b THEN a ELSE b
Max(a, b) == IF a > b THEN a ELSE b

\* All sequences over S of length 0..n.
SeqUpTo(S, n) == UNION {[1..k -> S] : k \in 0..n}

\* ------------------------------------------------------------- exceptions
\* The exceptions a method body of the subtitle processor raises.
ExceptionKinds == {"ProcessingError", "KeyError", "FormatError"}
\* `except Exception as e` around a method body: every one of them is caught.
CatchesNothing(kind) == FALSE
ExceptException(kind) == kind \in ExceptionKinds
\* handle_windows_exceptions: what an exception that leaves the method is raised
\* again as.
handle_windows_exceptions(kind) ==
    CASE kind \in {"PermissionError", "FileNotFoundError"} -> "FileOperationError"
      [] kind = "OSError" -> "ProcessingError"
      [] OTHER -> "FunClipException"
\* What the caller gets when the body raises: the handler's failure result, or
\* the exception (in the result's `raised`) when the handler does not catch it.
Outcome(kind, failure) ==
    IF ExceptException(kind) THEN failure
    ELSE [failure EXCEPT !.raised = handle_windows_exceptions(kind)]

\* ---------------------------------------------------------------- resolver
\* A raw segment of the diarization producer: times in milliseconds, the speaker
\* key optional.
\* (An explicit "spk0" parses to the same result as a missing speaker key.)
RawSpeakerKeys == {Missing, "spk1"}
RawSegments ==
    [speaker : RawSpeakerKeys,
     start : {1000 * t : t \in Times},
     end : {1000 * t : t \in Times}]

\* speaker_segments is a dict: its iteration order is the insertion order, so it
\* is a sequence of <<speaker_id, segments>> entries with distinct ids.
HasKey(d, k) == \E j \in 1..Len(d) : d[j].id = k
KeyIndex(d, k) == CHOOSE j \in 1..Len(d) : d[j].id = k
Keys(d) == [j \in 1..Len(d) |-> d[j].id]

\* segment.get("speaker", "spk0")
DefaultProducerSpeaker == "spk0"
GetSpeakerOfRaw(segment) ==
    IF segment.speaker = Missing THEN DefaultProducerSpeaker ELSE segment.speaker

\* One iteration of the loop of _parse_speaker_result.  The producer's times are
\* whole seconds in milliseconds, so `/ 1000` is exact.
AddRawSegment(speaker_segments, segment) ==
    LET speaker_id == GetSpeakerOfRaw(segment)
        start_time == segment.start \div 1000
        end_time == segment.end \div 1000
        entry == [start_time |-> start_time, end_time |-> end_time,
                  duration |-> end_time - start_time]
        d == IF HasKey(speaker_segments, speaker_id) THEN speaker_segments
             ELSE Append(speaker_segments, [id |-> speaker_id, segs |-> <<>>])
        j == KeyIndex(d, speaker_id)
    IN [d EXCEPT ![j].segs = Append(@, entry)]

RECURSIVE ParseLoop(_, _)
ParseLoop(raw, speaker_segments) ==
    IF raw = <<>> THEN speaker_segments
    ELSE ParseLoop(Tail(raw), AddRawSegment(speaker_segments, Head(raw)))

_parse_speaker_result(raw) ==
    LET speaker_segments == ParseLoop(raw, <<>>)
    IN [speaker_segments |-> speaker_segments,
        num_speakers |-> Len(speaker_segments),
        speakers |-> Keys(speaker_segments)]

\* overlap = min(end_time, segment["end_time"]) - max(start_time, segment["start_time"])
Overlap(start_time, end_time, segment) ==
    Min(end_time, segment.end_time) - Max(start_time, segment.start_time)

\* The resolver's initial answer.
DefaultSpeaker == "spk0"
InitialMaxOverlap == 0

\* The comparison that lets a segment take over as the best one.
Better(overlap, max_overlap) == overlap > max_overlap

\* The inner loop: the segments of one speaker.
RECURSIVE ScanSegments(_, _, _, _, _)
ScanSegments(start_time, end_time, speaker_id, segments, acc) ==
    IF segments = <<>> THEN acc
    ELSE LET overlap == Overlap(start_time, end_time, Head(segments))
             nxt == IF Better(overlap, acc.max_overlap)
                    THEN [max_overlap |-> overlap, best_speaker |-> speaker_id]
                    ELSE acc
         IN ScanSegments(start_time, end_time, speaker_id, Tail(segments), nxt)

\* The outer loop: the speakers in the dict's iteration order.
RECURSIVE ScanSpeakers(_, _, _, _)
ScanSpeakers(start_time, end_time, speaker_segments, acc) ==
    IF speaker_segments = <<>> THEN acc
    ELSE ScanSpeakers(start_time, end_time, Tail(speaker_segments),
                      ScanSegments(start_time, end_time, Head(speaker_segments).id,
                                   Head(speaker_segments).segs, acc))

_find_speaker_for_time(start_time, end_time, speaker_segments) ==
    ScanSpeakers(start_time, end_time, speaker_segments,
                 [max_overlap |-> InitialMaxOverlap,
                  best_speaker |-> DefaultSpeaker]).best_speaker

\* ---- idle values of the components a specification does not run
IdleResolve ==
    /\ raw_result = <<>> /\ speaker_result = _parse_speaker_result(<<>>)
    /\ utt = [start_time |-> 0, end_time |-> 0] /\ best = Missing /\ rpc = "idle"
IdleFuse ==
    /\ asr_in = <<>> /\ heap = <<>> /\ requests = {}
    /\ fdiar = <<>> /\ fpc = <<>> /\ fi = <<>> /\ fspeaker = <<>> /\ fout = <<>>
IdleMerge ==
    /\ msentences = <<>> /\ max_gap = 0 /\ max_duration = 0
    /\ merged_segments = <<>> /\ current_segment = <<>> /\ mi = 0
    /\ mresult = <<>> /\ mpc = "idle"
IdleFilter ==
    /\ fsentences = <<>> /\ fresult = <<>>
    /\ fkwargs = [speakers |-> [kind |-> "absent", items |-> <<>>]]
IdleTime == ts_text = <<>> /\ ts_value = <<>> /\ ts_back = <<>>
IdleProcess == ptype = Missing /\ oresult = <<>>
IdleModel ==
    /\ model_class = "" /\ model = 0 /\ diarization_model = 0 /\ is_loaded = FALSE
    /\ loads = 0 /\ generate_calls = {} /\ calls = 0
    /\ returned = [call |-> "", outcome |-> ""]
IdleSrt ==
    /\ ssentences = <<>> /\ srt_file = <<>> /\ sresult = <<>> /\ presult = <<>>
    /\ IdleTime /\ IdleProcess /\ IdleModel
    /\ skwargs = [output_path |-> "", include_speaker |-> FALSE]

\* ---- the resolver's specification: a raw result is parsed, then one utterance
\* span is resolved against it.
UttSpans == {s \in [start_time : Times, end_time : Times] : s.start_time <= s.end_time}

\* A producer's result: every turn has positive length and the turns of one speaker
\* do not overlap each other (turns of different speakers may, and the list is in
\* no particular order).
WellFormedRaw(r) ==
    /\ \A j \in 1..Len(r) : r[j].start < r[j].end
    /\ \A j, k \in 1..Len(r) :
          (j < k /\ GetSpeakerOfRaw(r[j]) = GetSpeakerOfRaw(r[k]))
              => Min(r[j].end, r[k].end) <= Max(r[j].start, r[k].start)

InitResolve ==
    /\ raw_result \in {r \in SeqUpTo(RawSegments, MaxRaw) : WellFormedRaw(r)}
    /\ utt \in UttSpans
    /\ speaker_result = _parse_speaker_result(<<>>)
    /\ best = Missing
    /\ rpc = "parse"
    /\ IdleFuse /\ IdleMerge /\ IdleFilter /\ IdleSrt

ParseSpeakerResult ==
    /\ rpc = "parse"
    /\ speaker_result' = _parse_speaker_result(raw_result)
    /\ rpc' = "find"
    /\ UNCHANGED <<raw_result, utt, best, fvars, mvars, flvars, svars>>

FindSpeakerForTime ==
    /\ rpc = "find"
    /\ rpc' = "done"
    /\ best' = _find_speaker_for_time(utt.start_time, utt.end_time,
                                      speaker_result.speaker_segments)
    /\ UNCHANGED <<raw_result, speaker_result, utt, fvars, mvars, flvars, svars>>

NextResolve == ParseSpeakerResult \/ FindSpeakerForTime
SpecResolve == InitResolve /\ [][NextResolve]_vars


\* ------------------------------------------------------------------ fusion
NoTime == -1        \* a sentence dict without the "start_time" key
FuseTimes == 0..FuseMaxTime

\* The text of the ASR sentence at position i: texts differ by position.
TextAt(i) == <<"t", ToString(i)>>

\* A transcript's sentences get the texts of their positions.
WithTexts(t) == [i \in DOMAIN t |-> [t[i] EXCEPT !.text = TextAt(i)]]

\* An ASR sentence: start_time, end_time and text, no speaker key yet.  One without
\* a start_time is malformed.
AsrShapes ==
    {x \in [start_time : FuseTimes, end_time : FuseTimes, text : {<<>>},
            speaker : {Missing}] : x.start_time <= x.end_time}
      \cup {[start_time |-> NoTime, end_time |-> 0, text |-> <<>>, speaker |-> Missing]}
AsrInputs == {WithTexts(t) : t \in SeqUpTo(AsrShapes, MaxUtt)}

FuseRawSegments ==
    [speaker : RawSpeakerKeys,
     start : {1000 * t : t \in FuseTimes},
     end : {1000 * t : t \in FuseTimes}]
FuseDiarizations ==
    {_parse_speaker_result(r) :
        r \in {x \in SeqUpTo(FuseRawSegments, MaxFuseRaw) : WellFormedRaw(x)}}

\* asr_result.get("sentences", []): the list holds the sentence objects themselves.
AsrSentenceIds == [i \in 1..Len(heap) |-> i]

\* sentence["start_time"], sentence["end_time"] raise KeyError on a missing key.
RaisesKeyError(sentence) == sentence.start_time = NoTime

\* The call of the resolver for one sentence (lines 105-109).
ResolveSentenceSwapped(sentence, speaker_segments) ==
    _find_speaker_for_time(sentence.end_time, sentence.start_time, speaker_segments)
ResolveSentence(sentence, speaker_segments) ==
    _find_speaker_for_time(sentence.start_time, sentence.end_time, speaker_segments)

\* sentence["speaker"] = speaker_id: an assignment to the sentence object itself.
SetSpeaker(h, id, speaker_id) == [h EXCEPT ![id].speaker = speaker_id]

\* The sentences of request r's return value, read through the references it holds.
Combined(r) == [k \in 1..Len(fout[r]) |-> heap[fout[r][k]]]

InitFuseWith(rs) ==
    /\ asr_in \in AsrInputs
    /\ heap = asr_in
    /\ requests = rs
    /\ fdiar \in [rs -> FuseDiarizations]
    /\ fpc = [r \in rs |-> "find"]
    /\ fi = [r \in rs |-> 1]
    /\ fspeaker = [r \in rs |-> Missing]
    /\ fout = [r \in rs |-> <<>>]
    /\ IdleResolve /\ IdleMerge /\ IdleFilter /\ IdleSrt

\* The head of one loop iteration: the resolver is called for the sentence.
FuseFind(r) ==
    /\ fpc[r] = "find"
    /\ fi[r] <= Len(AsrSentenceIds)
    /\ LET sentence == heap[AsrSentenceIds[fi[r]]]
       IN IF RaisesKeyError(sentence)
          THEN /\ fpc' = [fpc EXCEPT ![r] = "raised"]
               /\ UNCHANGED fspeaker
          ELSE /\ fspeaker' = [fspeaker EXCEPT ![r] =
                                  ResolveSentence(sentence, fdiar[r].speaker_segments)]
               /\ fpc' = [fpc EXCEPT ![r] = "store"]
    /\ UNCHANGED <<asr_in, heap, requests, fdiar, fi, fout, rvars, mvars, flvars, svars>>

\* The rest of the iteration: the speaker is stored in the sentence, and the
\* sentence is appended to combined_sentences.
FuseStore(r) ==
    /\ fpc[r] = "store"
    /\ heap' = SetSpeaker(heap, AsrSentenceIds[fi[r]], fspeaker[r])
    /\ fout' = [fout EXCEPT ![r] = Append(@, AsrSentenceIds[fi[r]])]
    /\ fi' = [fi EXCEPT ![r] = @ + 1]
    /\ fpc' = [fpc EXCEPT ![r] = "find"]
    /\ UNCHANGED <<asr_in, requests, fdiar, fspeaker, rvars, mvars, flvars, svars>>

\* The loop is over: the result dict is returned.
FuseReturn(r) ==
    /\ fpc[r] = "find"
    /\ fi[r] > Len(AsrSentenceIds)
    /\ fpc' = [fpc EXCEPT ![r] = "done"]
    /\ UNCHANGED <<asr_in, heap, requests, fdiar, fi, fspeaker, fout,
                   rvars, mvars, flvars, svars>>

NextFuse ==
    \/ \E r \in requests : FuseFind(r)
    \/ \E r \in requests : FuseStore(r)
    \/ \E r \in requests : FuseReturn(r)

\* One fusion request on its own.
InitFuse == InitFuseWith({1})
SpecFuse == InitFuse /\ [][NextFuse]_vars

\* Two fusion requests over the same asr_result, their steps interleaved.
InitFuse2 == InitFuseWith({1, 2})
SpecFuse2 == InitFuse2 /\ [][NextFuse]_vars

\* ------------------------------------------------------------------- merge
\* merge_segments: lines 210-222 give the defaults, the empty result list, the
\* accumulator that starts as None and is opened from the first sentence; the rest
\* of the loop is the single left-to-right pass the design describes.
MergeTimes == 0..MergeMaxTime
DefaultMaxGap == 1          \* kwargs.get("max_gap", 1.0)
DefaultMaxDuration == 30    \* kwargs.get("max_duration", 30.0)

MergeSpeakers == {Missing, "spk0", "spk1"}

\* A transcript for the merge: sentences of positive duration in non-decreasing
\* start order, each with or without a speaker. The merge only compares speaker
\* labels for equality, so the labels are given in order of first appearance:
\* "spk1" names the second speaker to talk.
MergeShapes ==
    {x \in [start_time : MergeTimes, end_time : MergeTimes, text : {<<>>},
            speaker : MergeSpeakers] : x.start_time < x.end_time}
MergeInputs ==
    {WithTexts(t) : t \in {x \in SeqUpTo(MergeShapes, MaxMergeUtt) :
                             /\ \A i \in 1..(Len(x) - 1) :
                                    x[i].start_time <= x[i + 1].start_time
                             /\ \A i \in 1..Len(x) :
                                    x[i].speaker = "spk1" =>
                                       \E j \in 1..(i - 1) : x[j].speaker = "spk0"}}

\* The limits a caller passes: no gap or the default one; a short duration or the
\* default one, which no cue of these transcripts exceeds.
MaxGaps == {0, DefaultMaxGap}
MaxDurations == {MergeMaxTime - 1, DefaultMaxDuration}

\* (a) same speaker, or both without one
AnySpeaker(acc, u) == TRUE
SameSpeaker(acc, u) == u.speaker = acc.speaker
\* (b) u.start - accumulator.end <= max_gap
GapStrict(acc, u, gap) == u.start_time - acc.end_time < gap
WithinGap(acc, u, gap) == u.start_time - acc.end_time <= gap
\* (c) u.end - accumulator.start <= max_duration
NoDurationLimit(acc, u, duration) == TRUE
WithinDuration(acc, u, duration) == u.end_time - acc.start_time <= duration

CanMerge(acc, u, gap, duration) ==
    SameSpeaker(acc, u) /\ WithinGap(acc, u, gap) /\ WithinDuration(acc, u, duration)

\* Merging: the texts joined by one space, the end extended to u's end.
MergeIntoUnspaced(acc, u) ==
    [acc EXCEPT !.text = acc.text \o u.text, !.end_time = u.end_time]
MergeInto(acc, u) ==
    [acc EXCEPT !.text = acc.text \o <<" ">> \o u.text, !.end_time = u.end_time]

\* A new accumulator opened from u.
OpenFrom(u) == u

InitMerge ==
    /\ msentences \in MergeInputs
    /\ max_gap \in MaxGaps
    /\ max_duration \in MaxDurations
    /\ merged_segments = <<>>
    /\ current_segment = <<>>
    /\ mi = 0
    /\ mresult = <<>>
    /\ mpc = "loop"
    /\ IdleResolve /\ IdleFuse /\ IdleFilter /\ IdleSrt

\* One iteration of `for sentence in sentences`.
MergeStep ==
    /\ mpc = "loop"
    /\ mi < Len(msentences)
    /\ ~RaisesKeyError(msentences[mi + 1])
    /\ LET sentence == msentences[mi + 1]
       IN IF current_segment = <<>>
          THEN /\ current_segment' = <<OpenFrom(sentence)>>
               /\ UNCHANGED merged_segments
          ELSE IF CanMerge(current_segment[1], sentence, max_gap, max_duration)
          THEN /\ current_segment' = <<MergeInto(current_segment[1], sentence)>>
               /\ UNCHANGED merged_segments
          ELSE /\ merged_segments' = Append(merged_segments, current_segment[1])
               /\ current_segment' = <<OpenFrom(sentence)>>
    /\ mi' = mi + 1
    /\ UNCHANGED <<msentences, max_gap, max_duration, mresult, mpc,
                   rvars, fvars, flvars, svars>>

\* Input exhausted: the open accumulator, if any, is emitted and the result returned.
MergeFinish ==
    /\ mpc = "loop"
    /\ mi = Len(msentences)
    /\ merged_segments' = merged_segments \o current_segment
    /\ current_segment' = <<>>
    /\ mresult' = <<[success |-> TRUE, sentences |-> merged_segments', error |-> "",
                      raised |-> ""]>>
    /\ mpc' = "done"
    /\ UNCHANGED <<msentences, max_gap, max_duration, mi, rvars, fvars, flvars, svars>>

\* An iteration that raises (a sentence without its times): the body is inside
\* `try:` (line 212), and the handler returns a failure result.
MergeError == "merge failed"
MergeFailure(message) ==
    [success |-> FALSE, sentences |-> <<>>, error |-> message, raised |-> ""]
MergeRaise ==
    /\ mpc = "loop"
    /\ mi < Len(msentences)
    /\ RaisesKeyError(msentences[mi + 1])
    /\ mresult' = <<Outcome("KeyError", MergeFailure(MergeError))>>
    /\ mpc' = "done"
    /\ UNCHANGED <<msentences, max_gap, max_duration, merged_segments, current_segment,
                   mi, rvars, fvars, flvars, svars>>

NextMerge == MergeStep \/ MergeFinish
SpecMerge == InitMerge /\ [][NextMerge]_vars

\* ------------------------------------------------------------------ filter
\* sentence.get("speaker", "")
GetSpeaker(sentence) == IF sentence.speaker = Missing THEN "" ELSE sentence.speaker

FilterSpeakers == {Missing, "", "spk0", "spk1"}
\* The times of the sentence at position i (the filter does not read them).
FilterShapes ==
    [start_time : {0}, end_time : {1}, text : {<<>>}, speaker : FilterSpeakers]
FilterInputs ==
    {[i \in DOMAIN t |-> [t[i] EXCEPT !.text = TextAt(i), !.start_time = i - 1,
                                      !.end_time = i]] :
        t \in SeqUpTo(FilterShapes, MaxFilterUtt)}

\* The "speakers" argument: not given, a list of identifiers, or one string.
SpeakerArgs ==
    {[kind |-> "absent", items |-> <<>>]}
      \cup {[kind |-> "list", items |-> l] : l \in SeqUpTo({"", "spk0", "spk1"}, MaxWanted)}
      \cup {[kind |-> "str", items |-> <<x>>] : x \in {"", "spk0", "spk1"}}

\* kwargs.get("speakers", [])
GetTargetSpeakers(kwargs) ==
    IF kwargs.speakers.kind = "absent" THEN [kind |-> "list", items |-> <<>>]
    ELSE kwargs.speakers

\* `not target_speakers`: an empty list or an empty string.
NeverMissing(target) == FALSE
NoTargets(target) ==
    \/ target.kind = "list" /\ target.items = <<>>
    \/ target.kind = "str" /\ target.items[1] = ""

\* if isinstance(target_speakers, str): target_speakers = [target_speakers]
AsList(target) == target.items

\* `speaker in target_speakers`, on a list
IsFirstOf(x, list) == list # <<>> /\ list[1] = x
InList(x, list) == \E k \in 1..Len(list) : list[k] = x

\* The loop over the sentences.
RECURSIVE FilterLoop(_, _, _)
FilterLoop(sentences, target_speakers, filtered_sentences) ==
    IF sentences = <<>> THEN filtered_sentences
    ELSE FilterLoop(Tail(sentences), target_speakers,
                    IF InList(GetSpeaker(Head(sentences)), target_speakers)
                    THEN Append(filtered_sentences, Head(sentences))
                    ELSE filtered_sentences)

MissingSpeakersError == "missing target speaker list"    \* "缺少目标说话人列表"

\* A ProcessingResult of the filter; `raised` names an exception that reaches the
\* caller instead of a result ("" when the call returns).
FilterFailure(message) ==
    [success |-> FALSE, error |-> message, raised |-> "", sentences |-> <<>>,
     original_count |-> 0, filtered_count |-> 0, target_speakers |-> <<>>]
FilterSuccess(sentences, filtered, target) ==
    [success |-> TRUE, error |-> "", raised |-> "", sentences |-> filtered,
     original_count |-> Len(sentences), filtered_count |-> Len(filtered),
     target_speakers |-> target]

InitFilter ==
    /\ fsentences \in FilterInputs
    /\ fkwargs \in [speakers : SpeakerArgs]
    /\ fresult = <<>>
    /\ IdleResolve /\ IdleFuse /\ IdleMerge /\ IdleSrt

filter_by_speaker ==
    /\ fresult = <<>>
    /\ LET target == GetTargetSpeakers(fkwargs)
       IN fresult' =
            IF NoTargets(target) THEN <<FilterFailure(MissingSpeakersError)>>
            ELSE <<FilterSuccess(fsentences,
                                 FilterLoop(fsentences, AsList(target), <<>>),
                                 AsList(target))>>
    /\ UNCHANGED <<fsentences, fkwargs, rvars, fvars, mvars, svars>>

NextFilter == filter_by_speaker
SpecFilter == InitFilter /\ [][NextFilter]_vars

\* ---------------------------------------------------------- SRT generation
\* Times of this component are integers of milliseconds.
Whitespace == {" ", "\n", "\t"}

\* str.strip()
RECURSIVE LStrip(_)
LStrip(text) ==
    IF text # <<>> /\ Head(text) \in Whitespace THEN LStrip(Tail(text)) ELSE text
RECURSIVE RStrip(_)
RStrip(text) ==
    IF text # <<>> /\ text[Len(text)] \in Whitespace
    THEN RStrip(SubSeq(text, 1, Len(text) - 1)) ELSE text
Strip(text) == RStrip(LStrip(text))

\* f"{i}": the decimal digits of a natural number
DigitChar(d) == <<"0", "1", "2", "3", "4", "5", "6", "7", "8", "9">>[d + 1]
RECURSIVE Digits(_)
Digits(n) == IF n < 10 THEN <<DigitChar(n)>> ELSE Digits(n \div 10) \o <<DigitChar(n % 10)>>

\* A number zero-padded to at least w digits.
NoPad(text, w) == text
RECURSIVE Pad(_, _)
Pad(text, w) == IF Len(text) >= w THEN text ELSE Pad(<<"0">> \o text, w)

\* _seconds_to_srt_time: HH:MM:SS,mmm, truncated to the millisecond.
_seconds_to_srt_time(ms) ==
    Pad(Digits(ms \div 3600000), 2) \o <<":">>
      \o Pad(Digits((ms \div 60000) % 60), 2) \o <<":">>
      \o Pad(Digits((ms \div 1000) % 60), 2) \o <<",">>
      \o Pad(Digits(ms % 1000), 3)

Arrow == <<" ", "-", "-", ">", " ">>

\* Speaker identifiers as texts.
SpeakerTextOf0 == <<"s", "p", "k", "0">>
SpeakerTextOf1 == <<"s", "p", "k", "1">>

\* f"[{speaker}] {text}"
TaggedNoSpace(speaker, text) == <<"[">> \o speaker \o <<"]">> \o text
Tagged(speaker, text) == <<"[">> \o speaker \o <<"]", " ">> \o text

\* '\n'.join(lines)
RECURSIVE Join(_)
Join(lines) ==
    IF lines = <<>> THEN <<>>
    ELSE IF Len(lines) = 1 THEN lines[1]
    ELSE lines[1] \o <<"\n">> \o Join(Tail(lines))

\* The index the loop gives the sentence at position i: enumerate(sentences, 1).
EnumerateIndex(i) == i

\* The four lines of one cue block (lines 69-72).
CueLines(i, sentence, text, include_speaker) ==
    <<Digits(EnumerateIndex(i)),
      _seconds_to_srt_time(sentence.start_time) \o Arrow
          \o _seconds_to_srt_time(sentence.end_time),
      IF sentence.speaker # <<>> /\ include_speaker
      THEN Tagged(sentence.speaker, text) ELSE text,
      <<>>>>

\* The loop of generate_srt from position i on.
RECURSIVE SrtLoop(_, _, _, _)
SrtLoop(sentences, i, include_speaker, srt_content) ==
    IF i > Len(sentences) THEN srt_content
    ELSE LET text == Strip(sentences[i].text)
         IN SrtLoop(sentences, i + 1, include_speaker,
                    IF text = <<>> THEN srt_content
                    ELSE srt_content \o CueLines(i, sentences[i], text, include_speaker))

\* A sentence for generate_srt; speaker is sentence.get("speaker", ""), a text.
SrtTexts == {<<>>, <<" ">>, <<"a">>, <<" ", "b", " ">>}
SrtSpeakers == {<<>>, <<"s", "p", "k", "0">>}
SrtSpans == {<<0, 3000>>, <<3661001, 3723004>>}
SrtShapes ==
    {[start_time |-> sp[1], end_time |-> sp[2], text |-> tx, speaker |-> sk] :
        sp \in SrtSpans, tx \in SrtTexts, sk \in SrtSpeakers}
SrtInputs == SeqUpTo(SrtShapes, MaxSrtUtt)

MissingOutputPathError == "missing output path"     \* "缺少输出路径参数"

SrtFailure(message) ==
    [success |-> FALSE, error |-> message, raised |-> "", srt_path |-> "",
     subtitle_count |-> 0, total_duration |-> 0]
SrtSuccess(sentences, output_path) ==
    [success |-> TRUE, error |-> "", raised |-> "", srt_path |-> output_path,
     subtitle_count |-> Len(sentences),
     total_duration |-> IF sentences # <<>> THEN sentences[Len(sentences)].end_time
                        ELSE 0]

InitSrt ==
    /\ ssentences \in SrtInputs
    /\ skwargs \in [output_path : {"", "out.srt"}, include_speaker : BOOLEAN]
    /\ srt_file = <<>>
    /\ sresult = <<>>
    /\ presult = <<>>
    /\ IdleResolve /\ IdleFuse /\ IdleMerge /\ IdleFilter /\ IdleTime /\ IdleProcess /\ IdleModel

generate_srt ==
    /\ sresult = <<>>
    /\ IF skwargs.output_path = ""
       THEN /\ sresult' = <<Outcome("ProcessingError",
                                    SrtFailure(MissingOutputPathError))>>
            /\ UNCHANGED srt_file
       ELSE /\ srt_file' = <<Join(SrtLoop(ssentences, 1, skwargs.include_speaker, <<>>))>>
            /\ sresult' = <<SrtSuccess(ssentences, skwargs.output_path)>>
    /\ UNCHANGED <<ssentences, skwargs, presult, tvars, pvars, lvars,
                   rvars, fvars, mvars, flvars>>

NextSrt == generate_srt
SpecSrt == InitSrt /\ [][NextSrt]_vars

\* ------------------------------------------------------------- SRT parsing
HasChar(text, c) == \E j \in 1..Len(text) : text[j] = c
FirstIndexOf(text, c) ==
    CHOOSE j \in 1..Len(text) : text[j] = c /\ \A k \in 1..(j - 1) : text[k] # c

\* str.split('\n'): the text after `line`, split at the newlines.
RECURSIVE SplitLines(_, _)
SplitLines(content, line) ==
    IF ~HasChar(content, "\n") THEN <<line \o content>>
    ELSE LET j == FirstIndexOf(content, "\n")
         IN <<line \o SubSeq(content, 1, j - 1)>>
              \o SplitLines(SubSeq(content, j + 1, Len(content)), <<>>)

\* The length of the longest prefix of whitespace.
RECURSIVE SpaceRun(_)
SpaceRun(text) ==
    IF text # <<>> /\ Head(text) \in Whitespace THEN 1 + SpaceRun(Tail(text)) ELSE 0
\* The last position up to n that holds a newline, 0 when there is none.
RECURSIVE LastNewline(_, _)
LastNewline(text, n) ==
    IF n = 0 THEN 0 ELSE IF text[n] = "\n" THEN n ELSE LastNewline(text, n - 1)

\* re.split(r'\n\s*\n', content): a separator is a newline, then whitespace, then
\* a newline; the whitespace is matched greedily, so the separator runs up to the
\* last newline of the whitespace that follows its first one.
After(content, p) == SubSeq(content, p + 1, Len(content))
SeparatorLen(content, p) ==
    IF content[p] = "\n"
    THEN LET k == LastNewline(After(content, p), SpaceRun(After(content, p)))
         IN IF k > 0 THEN 1 + k ELSE 0
    ELSE 0
RECURSIVE SplitBlocks(_, _)
SplitBlocks(content, block) ==
    LET starts == {p \in 1..Len(content) : SeparatorLen(content, p) > 0}
    IN IF starts = {} THEN <<block \o content>>
       ELSE LET p == CHOOSE q \in starts : \A r \in starts : q <= r
            IN <<block \o SubSeq(content, 1, p - 1)>>
                 \o SplitBlocks(After(content, p + SeparatorLen(content, p) - 1), <<>>)

IsDigit(c) == c \in {"0", "1", "2", "3", "4", "5", "6", "7", "8", "9"}
DigitValue(c) == CHOOSE d \in 0..9 : DigitChar(d) = c
AllDigits(text) == \A j \in 1..Len(text) : IsDigit(text[j])
RECURSIVE ParseNat(_)
ParseNat(text) ==
    IF text = <<>> THEN 0
    ELSE 10 * ParseNat(SubSeq(text, 1, Len(text) - 1)) + DigitValue(text[Len(text)])

\* int(lines[0]): surrounding whitespace and one sign are accepted, then digits
\* only; anything else is a ValueError.
Unsigned(text) == IF text # <<>> /\ Head(text) \in {"+", "-"} THEN Tail(text) ELSE text
RaisesValueError(text) ==
    LET body == Unsigned(Strip(text)) IN body = <<>> \/ ~AllDigits(body)
IntOf(text) ==
    LET t == Strip(text)
    IN IF Head(t) = "-" THEN 0 - ParseNat(Unsigned(t)) ELSE ParseNat(Unsigned(t))

\* \d{2}:\d{2}:\d{2},\d{3}
TimestampLen == 12
IsTimestamp(text) ==
    /\ Len(text) = TimestampLen
    /\ \A j \in {1, 2, 4, 5, 7, 8, 10, 11, 12} : IsDigit(text[j])
    /\ text[3] = ":" /\ text[6] = ":" /\ text[9] = ","
\* re.match of the time line: the pattern at the start of the line, anything after.
TimeLineLen == 2 * TimestampLen + Len(Arrow)
TimeMatch(line) ==
    /\ Len(line) >= TimeLineLen
    /\ IsTimestamp(SubSeq(line, 1, TimestampLen))
    /\ SubSeq(line, TimestampLen + 1, TimestampLen + Len(Arrow)) = Arrow
    /\ IsTimestamp(SubSeq(line, TimestampLen + Len(Arrow) + 1, TimeLineLen))
TimeGroup1(line) == SubSeq(line, 1, TimestampLen)
TimeGroup2(line) == SubSeq(line, TimestampLen + Len(Arrow) + 1, TimeLineLen)

\* _srt_time_to_seconds: the value of HH:MM:SS,mmm, in milliseconds.
_srt_time_to_seconds(text) ==
    LET colon1 == CHOOSE j \in 1..Len(text) :
                      text[j] = ":" /\ \A k \in 1..(j - 1) : text[k] # ":"
        hours == ParseNat(SubSeq(text, 1, colon1 - 1))
        minutes == ParseNat(SubSeq(text, colon1 + 1, colon1 + 2))
        seconds == ParseNat(SubSeq(text, colon1 + 4, colon1 + 5))
        millis == ParseNat(SubSeq(text, colon1 + 7, colon1 + 9))
    IN ((hours * 60 + minutes) * 60 + seconds) * 1000 + millis

\* The failure of _srt_time_to_seconds (FormatError): the text is not HH:MM:SS,mmm
\* with two hour digits or more, or its minutes or its seconds are beyond 59.
IsTimestampText(text) ==
    /\ Len(text) >= TimestampLen
    /\ LET h == Len(text) - TimestampLen + 2
       IN /\ AllDigits(SubSeq(text, 1, h))
          /\ IsTimestamp(<<"0", "0">> \o SubSeq(text, h + 1, Len(text)))
RaisesFormatError(text) ==
    \/ ~IsTimestampText(text)
    \/ LET h == Len(text) - TimestampLen + 2
       IN \/ ParseNat(SubSeq(text, h + 2, h + 3)) > 59
          \/ ParseNat(SubSeq(text, h + 5, h + 6)) > 59

\* re.match(r'\[([^\]]+)\]\s*(.*)', text): an opening bracket first, at least one
\* character up to the first closing bracket, then whitespace, then the rest of
\* that line (`.` does not match a newline).
SpeakerMatch(text) ==
    /\ text # <<>> /\ Head(text) = "["
    /\ HasChar(text, "]") /\ FirstIndexOf(text, "]") >= 3
SpeakerGroup1(text) == SubSeq(text, 2, FirstIndexOf(text, "]") - 1)
UpToLineEnd(text) ==
    IF HasChar(text, "\n") THEN SubSeq(text, 1, FirstIndexOf(text, "\n") - 1) ELSE text
SpeakerGroup2(text) ==
    UpToLineEnd(LStrip(SubSeq(text, FirstIndexOf(text, "]") + 1, Len(text))))

\* The block gets as far as the conversion of its two timestamps, and one of the
\* two conversions raises.
BlockRaises(block) ==
    LET lines == SplitLines(Strip(block), <<>>)
    IN /\ Len(lines) >= 3
       /\ ~RaisesValueError(lines[1])
       /\ TimeMatch(lines[2])
       /\ \/ RaisesFormatError(TimeGroup1(lines[2]))
          \/ RaisesFormatError(TimeGroup2(lines[2]))

\* One iteration of the loop over the blocks: <<>> when the block is skipped, else
\* the sentence that is appended. An exception raised in the block and caught by
\* `except (ValueError, IndexError)` skips the block.
ParseBlock(block) ==
    LET lines == SplitLines(Strip(block), <<>>)
    IN IF Len(lines) < 3 THEN <<>>
       ELSE IF RaisesValueError(lines[1]) THEN <<>>
       ELSE IF ~TimeMatch(lines[2]) THEN <<>>
       ELSE IF BlockRaises(block) THEN <<>>
       ELSE LET start_time == _srt_time_to_seconds(TimeGroup1(lines[2]))
                end_time == _srt_time_to_seconds(TimeGroup2(lines[2]))
                text == Join(SubSeq(lines, 3, Len(lines)))
            IN <<[index |-> IntOf(lines[1]),
                  start_time |-> start_time,
                  end_time |-> end_time,
                  text |-> IF SpeakerMatch(text) THEN SpeakerGroup2(text) ELSE text,
                  speaker |-> IF SpeakerMatch(text) THEN SpeakerGroup1(text) ELSE <<>>,
                  duration |-> end_time - start_time]>>

RECURSIVE ParseBlocks(_)
ParseBlocks(blocks) ==
    IF blocks = <<>> THEN <<>> ELSE ParseBlock(Head(blocks)) \o ParseBlocks(Tail(blocks))

_parse_srt_content(content) == ParseBlocks(SplitBlocks(Strip(content), <<>>))

\* `except (ValueError, IndexError)` in the loop: the exceptions it catches.
BlockExceptions == {"ValueError", "IndexError"}
\* The class FormatError derives from, which decides whether the loop's handler
\* catches it: it is a ValueError, or it is not.
FormatErrorBases == {"ValueError", "Exception"}
\* _parse_srt_content raises: a block raises FormatError and the loop's handler
\* does not catch it.
ContentRaises(content, base) ==
    /\ base \notin BlockExceptions
    /\ LET blocks == SplitBlocks(Strip(content), <<>>)
       IN \E k \in 1..Len(blocks) : BlockRaises(blocks[k])

MissingFileError == "no such SRT file"      \* "SRT文件不存在"
ParseError == "parse failed"                \* "解析SRT失败: {e}"
ParseFailure(message) ==
    [success |-> FALSE, error |-> message, raised |-> "", data |-> <<>>]
ParseSuccess(sentences) ==
    [success |-> TRUE, error |-> "", raised |-> "",
     data |-> [sentences |-> sentences, total_count |-> Len(sentences)]]

\* parse_srt_file on the path of srt_file.
parse_srt_file ==
    /\ presult = <<>>
    /\ \E base \in FormatErrorBases :
          presult' = IF srt_file = <<>>
                     THEN <<Outcome("ProcessingError", ParseFailure(MissingFileError))>>
                     ELSE IF ContentRaises(srt_file[1], base)
                     THEN <<Outcome("FormatError", ParseFailure(ParseError))>>
                     ELSE <<ParseSuccess(_parse_srt_content(srt_file[1]))>>
    /\ UNCHANGED <<ssentences, skwargs, srt_file, sresult, tvars, pvars, lvars,
                   rvars, fvars, mvars, flvars>>

\* ---- a timestamp text is converted to its value and back
\* HH:MM:SS,mmm with minutes and seconds in 0..59; the hours go beyond 24.
HourTexts == {<<"0", "0">>, <<"0", "7">>, <<"2", "5">>, <<"9", "9">>}
SixtyTexts == {<<"0", "0">>, <<"0", "9">>, <<"3", "0">>, <<"5", "9">>}
MilliTexts == {<<"0", "0", "0">>, <<"0", "0", "7">>, <<"0", "4", "0">>,
               <<"9", "9", "9">>}
TimestampTexts ==
    {h \o <<":">> \o m \o <<":">> \o sec \o <<",">> \o ms :
        h \in HourTexts, m \in SixtyTexts, sec \in SixtyTexts, ms \in MilliTexts}

InitTime ==
    /\ ts_text \in TimestampTexts
    /\ ts_value = <<>> /\ ts_back = <<>>
    /\ ssentences = <<>> /\ srt_file = <<>> /\ sresult = <<>> /\ presult = <<>>
    /\ skwargs = [output_path |-> "", include_speaker |-> FALSE]
    /\ IdleResolve /\ IdleFuse /\ IdleMerge /\ IdleFilter /\ IdleProcess /\ IdleModel

SrtTimeToSeconds ==
    /\ ts_value = <<>>
    /\ ts_value' = <<_srt_time_to_seconds(ts_text)>>
    /\ UNCHANGED <<ts_text, ts_back, ssentences, skwargs, srt_file, sresult, presult,
                   pvars, lvars, rvars, fvars, mvars, flvars>>

SecondsToSrtTime ==
    /\ ts_value # <<>> /\ ts_back = <<>>
    /\ ts_back' = <<_seconds_to_srt_time(ts_value[1])>>
    /\ UNCHANGED <<ts_text, ts_value, ssentences, skwargs, srt_file, sresult, presult,
                   pvars, lvars, rvars, fvars, mvars, flvars>>

NextTime == SrtTimeToSeconds \/ SecondsToSrtTime
SpecTime == InitTime /\ [][NextTime]_vars

\* ---- documents for parse_srt_file: cue blocks, well-formed or not, with a blank
\* line between them.
TimeLineA == _seconds_to_srt_time(0) \o Arrow \o _seconds_to_srt_time(3000)
TimeLineB == _seconds_to_srt_time(3000) \o Arrow \o _seconds_to_srt_time(3661001)
ParseBlockKinds ==
    {Join(<<<<"1">>, TimeLineA, <<"a">>>>),                  \* well-formed
     Join(<<<<"2">>, TimeLineB, Tagged(SpeakerTextOf1, <<"b">>)>>),  \* with a tag
     Join(<<<<"3">>, <<"c">>>>),                            \* no timestamp line
     Join(<<<<"x">>, TimeLineA, <<"a">>>>),                  \* index not a number
     Join(<<<<"4">>, <<"c">>, <<"d">>>>)}                   \* second line no time
BlankLine == <<"\n", "\n">>
RECURSIVE JoinBlocks(_)
JoinBlocks(blocks) ==
    IF blocks = <<>> THEN <<>>
    ELSE IF Len(blocks) = 1 THEN blocks[1]
    ELSE blocks[1] \o BlankLine \o JoinBlocks(Tail(blocks))
ParseDocuments == {JoinBlocks(bs) : bs \in SeqUpTo(ParseBlockKinds, MaxParseBlocks)}

\* The file is there with one of the documents, or it is not there.
InitParse ==
    /\ srt_file \in {<<>>} \cup {<<d>> : d \in ParseDocuments}
    /\ ssentences = <<>>
    /\ skwargs = [output_path |-> "", include_speaker |-> FALSE]
    /\ sresult = <<>>
    /\ presult = <<>>
    /\ IdleResolve /\ IdleFuse /\ IdleMerge /\ IdleFilter /\ IdleTime /\ IdleProcess /\ IdleModel

NextParse == parse_srt_file
SpecParse == InitParse /\ [][NextParse]_vars

\* ---- documents whose cues have one text line or more, the first with or without
\* a speaker tag.
FirstTextLines == {<<"a">>}
MoreTextLines == {<<"b">>, <<"c", " ", "d">>}
TextCues ==
    {[speaker |-> sk, lines |-> first \o more] :
        sk \in {<<>>, SpeakerTextOf1},
        first \in {<<l>> : l \in FirstTextLines},
        more \in SeqUpTo(MoreTextLines, MaxTextLines - 1)}
\* The block of a cue: its index line, its time line, its text lines, the tag in
\* front of the first.
CueBlock(n, cue) ==
    Join(<<<<DigitChar(n)>>, TimeLineA,
           IF cue.speaker = <<>> THEN cue.lines[1]
           ELSE Tagged(cue.speaker, cue.lines[1])>> \o Tail(cue.lines))
\* A document of one cue or of two.
TextCueLists == {<<c>> : c \in TextCues} \cup {<<c, d>> : c \in TextCues, d \in TextCues}
TextDocument(cues) == JoinBlocks([k \in 1..Len(cues) |-> CueBlock(k, cues[k])])

InitParseText ==
    /\ srt_file \in {<<TextDocument(cues)>> : cues \in TextCueLists}
    /\ ssentences = <<>>
    /\ skwargs = [output_path |-> "", include_speaker |-> FALSE]
    /\ sresult = <<>>
    /\ presult = <<>>
    /\ IdleResolve /\ IdleFuse /\ IdleMerge /\ IdleFilter /\ IdleTime /\ IdleProcess /\ IdleModel

SpecParseText == InitParseText /\ [][NextParse]_vars

\* ---- documents whose cues have timestamps that are well-formed or not
GoodTimeTexts == {_seconds_to_srt_time(0), _seconds_to_srt_time(3000)}
\* Minutes beyond 59, seconds beyond 59, one hour digit, a point for the comma.
BadTimeTexts ==
    {<<"0", "0", ":", "7", "5", ":", "0", "0", ",", "0", "0", "0">>,
     <<"0", "0", ":", "0", "0", ":", "6", "0", ",", "0", "0", "0">>,
     <<"0", ":", "0", "0", ":", "0", "3", ",", "0", "0", "0">>,
     <<"0", "0", ":", "0", "0", ":", "0", "3", ".", "0", "0", "0">>}
TimeTexts == GoodTimeTexts \cup BadTimeTexts
\* A cue has at most one timestamp that is not well-formed.
TimedCues ==
    {[start |-> a, end |-> b] : a \in GoodTimeTexts, b \in TimeTexts}
      \cup {[start |-> a, end |-> b] : a \in TimeTexts, b \in GoodTimeTexts}
TimedBlock(n, cue) == Join(<<<<DigitChar(n)>>, cue.start \o Arrow \o cue.end, <<"a">>>>)
TimedCueLists ==
    UNION {[1..n -> TimedCues] : n \in 1..MaxTimedBlocks}
TimedDocument(cues) == JoinBlocks([k \in 1..Len(cues) |-> TimedBlock(k, cues[k])])

InitParseTime ==
    /\ srt_file \in {<<TimedDocument(cues)>> : cues \in TimedCueLists}
    /\ ssentences = <<>>
    /\ skwargs = [output_path |-> "", include_speaker |-> FALSE]
    /\ sresult = <<>>
    /\ presult = <<>>
    /\ IdleResolve /\ IdleFuse /\ IdleMerge /\ IdleFilter /\ IdleTime /\ IdleProcess /\ IdleModel

SpecParseTime == InitParseTime /\ [][NextParse]_vars

\* ---- a transcript is written by generate_srt and the file is parsed back
\* Texts: one word, two sentences on a line, a leading blank, two lines.
RtTexts == {<<"a">>, <<"a", ".", " ", "b", ".">>, <<" ", "a">>, <<"a", "\n", "b">>}
RtSpeakers == {<<>>, SpeakerTextOf0, SpeakerTextOf1}
RtShapes ==
    {[start_time |-> sp[1], end_time |-> sp[2], text |-> tx, speaker |-> sk] :
        sp \in SrtSpans, tx \in RtTexts, sk \in RtSpeakers}
RtInputs == SeqUpTo(RtShapes, MaxRtUtt)

InitRoundTrip ==
    /\ ssentences \in RtInputs
    /\ skwargs \in [output_path : {"out.srt"}, include_speaker : BOOLEAN]
    /\ srt_file = <<>>
    /\ sresult = <<>>
    /\ presult = <<>>
    /\ IdleResolve /\ IdleFuse /\ IdleMerge /\ IdleFilter /\ IdleTime /\ IdleProcess /\ IdleModel

\* parse_srt_file is called on the path generate_srt was given.
ParseWritten == sresult # <<>> /\ parse_srt_file

NextRoundTrip == generate_srt \/ ParseWritten
SpecRoundTrip == InitRoundTrip /\ [][NextRoundTrip]_vars

\* ---------------------------------------------------------------- dispatch
\* process(input_data, **kwargs): the operation is chosen by kwargs "type".
DefaultProcessType == "generate_srt"
SupportedTypes == {"generate_srt", "parse_srt", "filter_by_speaker", "merge_segments"}
ProcessTypes == {Missing, "translate"} \cup SupportedTypes
\* kwargs.get("type", "generate_srt")
Dispatch(type) == IF type = Missing THEN DefaultProcessType ELSE type

UnsupportedTypeError == "unsupported process type"      \* "不支持的处理类型"
ProcessFailure(message) == [success |-> FALSE, error |-> message, raised |-> ""]

\* Transcripts for the merge that may hold a sentence without its times.
MalformedSentence ==
    [start_time |-> NoTime, end_time |-> 0, text |-> <<>>, speaker |-> Missing]
ProcMergeShapes ==
    {[start_time |-> t, end_time |-> t + 1, text |-> <<>>, speaker |-> sk] :
        t \in {0, 1}, sk \in {Missing, "spk0"}} \cup {MalformedSentence}
ProcMergeInputs ==
    {WithTexts(t) : t \in {x \in SeqUpTo(ProcMergeShapes, MaxProcUtt) :
        \A i, j \in 1..Len(x) :
            (i < j /\ ~RaisesKeyError(x[i]) /\ ~RaisesKeyError(x[j]))
                => x[i].start_time <= x[j].start_time}}
ProcDocuments == {JoinBlocks(bs) : bs \in SeqUpTo(ParseBlockKinds, 1)}

\* The state at a call of process: input_data and kwargs fit the chosen type.
InitProcess ==
    /\ ptype \in ProcessTypes
    /\ oresult = <<>>
    /\ sresult = <<>> /\ presult = <<>> /\ fresult = <<>> /\ mresult = <<>>
    /\ IF Dispatch(ptype) = "generate_srt"
       THEN /\ ssentences \in SeqUpTo(SrtShapes, MaxProcUtt)
            /\ skwargs \in [output_path : {"", "out.srt"}, include_speaker : BOOLEAN]
       ELSE /\ ssentences = <<>>
            /\ skwargs = [output_path |-> "", include_speaker |-> FALSE]
    /\ IF Dispatch(ptype) = "parse_srt"
       THEN srt_file \in {<<>>} \cup {<<d>> : d \in ProcDocuments}
       ELSE srt_file = <<>>
    /\ IF Dispatch(ptype) = "filter_by_speaker"
       THEN /\ fsentences \in SeqUpTo(FilterShapes, MaxProcUtt)
            /\ fkwargs \in [speakers : SpeakerArgs]
       ELSE /\ fsentences = <<>>
            /\ fkwargs = [speakers |-> [kind |-> "absent", items |-> <<>>]]
    /\ IF Dispatch(ptype) = "merge_segments"
       THEN /\ msentences \in ProcMergeInputs
            /\ max_gap \in MaxGaps /\ max_duration \in MaxDurations
            /\ mpc = "loop"
       ELSE /\ msentences = <<>> /\ max_gap = 0 /\ max_duration = 0
            /\ mpc = "idle"
    /\ merged_segments = <<>> /\ current_segment = <<>> /\ mi = 0
    /\ IdleResolve /\ IdleFuse /\ IdleTime /\ IdleModel

ProcessGenerateSrt == Dispatch(ptype) = "generate_srt" /\ generate_srt
ProcessParseSrt == Dispatch(ptype) = "parse_srt" /\ parse_srt_file
ProcessFilterBySpeaker == Dispatch(ptype) = "filter_by_speaker" /\ filter_by_speaker
ProcessMergeStep == Dispatch(ptype) = "merge_segments" /\ MergeStep
ProcessMergeRaise == Dispatch(ptype) = "merge_segments" /\ MergeRaise
ProcessMergeFinish == Dispatch(ptype) = "merge_segments" /\ MergeFinish
\* The else branch: process builds the failure result itself.
ProcessUnsupported ==
    /\ Dispatch(ptype) \notin SupportedTypes
    /\ oresult = <<>>
    /\ oresult' = <<ProcessFailure(UnsupportedTypeError)>>
    /\ UNCHANGED <<ptype, ssentences, skwargs, srt_file, sresult, presult, tvars,
                   lvars, rvars, fvars, mvars, flvars>>

\* What process returns: the called operation's result, or its own.
ProcessReturned ==
    CASE Dispatch(ptype) = "generate_srt" -> sresult
      [] Dispatch(ptype) = "parse_srt" -> presult
      [] Dispatch(ptype) = "filter_by_speaker" -> fresult
      [] Dispatch(ptype) = "merge_segments" -> mresult
      [] OTHER -> oresult

NextProcess ==
    \/ ProcessGenerateSrt
    \/ ProcessParseSrt
    \/ ProcessFilterBySpeaker
    \/ ProcessMergeStep
    \/ ProcessMergeRaise
    \/ ProcessMergeFinish
    \/ ProcessUnsupported
SpecProcess == InitProcess /\ [][NextProcess]_vars

\* ------------------------------------------------------------------ models
\* ASRModel and SpeakerModel: BaseModel's fields, load_model, predict and
\* unload_model. The object AutoModel builds is a number, a new one at each call.
ModelClasses == {"ASRModel", "SpeakerModel"}
NoHandle == 0       \* None (self.model = None), or the attribute is not assigned
\* The attribute predict calls generate on: self.model in ASRModel,
\* self.diarization_model in SpeakerModel.
Handle == IF model_class = "ASRModel" THEN model ELSE diarization_model

\* `if not self.is_loaded: self.load_model()` at the head of predict.
SkipsLoad(loaded) == FALSE
NeedsLoad(loaded) == ~loaded

\* BaseModel.__init__: no model, not loaded.
InitModel ==
    /\ model_class \in ModelClasses
    /\ model = NoHandle
    /\ diarization_model = NoHandle
    /\ is_loaded = FALSE
    /\ loads = 0
    /\ generate_calls = {}
    /\ returned = [call |-> "__init__", outcome |-> ""]
    /\ calls = 0
    /\ IdleResolve /\ IdleFuse /\ IdleMerge /\ IdleFilter
    /\ ssentences = <<>> /\ srt_file = <<>> /\ sresult = <<>> /\ presult = <<>>
    /\ skwargs = [output_path |-> "", include_speaker |-> FALSE]
    /\ IdleTime /\ IdleProcess

\* What only the calls on a model object change.
ModelFrame ==
    UNCHANGED <<model_class, ssentences, skwargs, srt_file, sresult, presult, tvars,
                pvars, rvars, fvars, mvars, flvars>>
\* A call is made.
Called(call, outcome) ==
    /\ calls < MaxCalls
    /\ calls' = calls + 1
    /\ returned' = [call |-> call, outcome |-> outcome]

\* The body of load_model when AutoModel returns: the handle is assigned, then
\* is_loaded is set.
Loaded ==
    /\ loads' = loads + 1
    /\ IF model_class = "ASRModel"
       THEN model' = loads + 1 /\ UNCHANGED diarization_model
       ELSE diarization_model' = loads + 1 /\ UNCHANGED model
    /\ is_loaded' = TRUE
\* The body of load_model when AutoModel raises: nothing is assigned.
NotLoaded == UNCHANGED <<model, diarization_model, is_loaded, loads>>
\* The exception of a failed load as the caller gets it: ModelLoadError, raised
\* again by handle_windows_exceptions.
LoadRaised == handle_windows_exceptions("ModelLoadError")

\* load_model returns True.
LoadModelReturns ==
    /\ Called("load_model", "True")
    /\ Loaded
    /\ UNCHANGED generate_calls
    /\ ModelFrame
\* load_model raises.
LoadModelRaises ==
    /\ Called("load_model", LoadRaised)
    /\ NotLoaded
    /\ UNCHANGED generate_calls
    /\ ModelFrame

\* predict on a model that is not loaded, the load raising: the exception leaves
\* predict from before its try block.
PredictLoadRaises ==
    /\ NeedsLoad(is_loaded)
    /\ Called("predict", LoadRaised)
    /\ NotLoaded
    /\ UNCHANGED generate_calls
    /\ ModelFrame
\* predict gets to generate, after a load when one is needed; generate returns or
\* raises, and predict returns a result either way.
PredictGenerates ==
    /\ \E success \in BOOLEAN :
          Called("predict", IF success THEN "success" ELSE "failure")
    /\ IF NeedsLoad(is_loaded) THEN Loaded ELSE NotLoaded
    /\ ModelFrame
    /\ generate_calls' =
          generate_calls \cup {[is_loaded |-> is_loaded', handle |-> Handle']}

\* BaseModel.unload_model
UnloadModel ==
    /\ Called("unload_model", "None")
    /\ model' = NoHandle
    /\ is_loaded' = FALSE
    /\ UNCHANGED <<diarization_model, loads, generate_calls>>
    /\ ModelFrame

NextModel ==
    \/ LoadModelReturns
    \/ LoadModelRaises
    \/ PredictLoadRaises
    \/ PredictGenerates
    \/ UnloadModel
SpecModel == InitModel /\ [][NextModel]_vars

\* ---------------------------------------------------------------- pipeline
\* The components in sequence, each fed the previous one's result: combine_with_asr,
\* then merge_segments on its "sentences", then generate_srt on the merged ones.
Hello == <<"h", "e", "l", "l", "o">>
World == <<"w", "o", "r", "l", "d">>
PipeSpans == {<<0, 3>>, <<3, 6>>, <<5, 6>>}
PipeShapes ==
    {[start_time |-> sp[1], end_time |-> sp[2], text |-> tx, speaker |-> Missing] :
        sp \in PipeSpans, tx \in {Hello, World}}
PipeTranscripts ==
    {t \in SeqUpTo(PipeShapes, MaxPipeUtt) :
        \A i \in 1..(Len(t) - 1) : t[i].start_time <= t[i + 1].start_time}
PipeRawSegments ==
    {[speaker |-> "spk0", start |-> 0, end |-> 6000],
     [speaker |-> "spk1", start |-> 3000, end |-> 6000],
     [speaker |-> Missing, start |-> 0, end |-> 3000]}
PipeDiarizations ==
    {_parse_speaker_result(r) :
        r \in {x \in SeqUpTo(PipeRawSegments, MaxPipeRaw) : WellFormedRaw(x)}}
PipeMaxGaps == {0, DefaultMaxGap}
PipeMaxDurations == {3, 10}

\* A time in seconds as the milliseconds generate_srt's time conversion works on.
AsMillis(seconds) == 1000 * seconds
\* sentence.get("speaker", ""): the identifier as a text.
SpeakerText(id) ==
    CASE id = "spk0" -> SpeakerTextOf0
      [] id = "spk1" -> SpeakerTextOf1
      [] OTHER -> <<>>
\* A merged cue as generate_srt reads it.
AsSrtSentence(cue) ==
    [start_time |-> AsMillis(cue.start_time), end_time |-> AsMillis(cue.end_time),
     text |-> cue.text, speaker |-> SpeakerText(cue.speaker)]

InitPipeline ==
    /\ asr_in \in PipeTranscripts
    /\ heap = asr_in
    /\ requests = {1}
    /\ fdiar \in [{1} -> PipeDiarizations]
    /\ fpc = [r \in {1} |-> "find"]
    /\ fi = [r \in {1} |-> 1]
    /\ fspeaker = [r \in {1} |-> Missing]
    /\ fout = [r \in {1} |-> <<>>]
    /\ IdleResolve /\ IdleMerge /\ IdleFilter /\ IdleSrt

\* merge_segments is called with the fused sentences.
PipeMerge ==
    /\ requests = {1} /\ fpc[1] = "done" /\ mpc = "idle"
    /\ msentences' = Combined(1)
    /\ max_gap' \in PipeMaxGaps
    /\ max_duration' \in PipeMaxDurations
    /\ mpc' = "loop"
    /\ UNCHANGED <<merged_segments, current_segment, mi, mresult,
                   rvars, fvars, flvars, svars>>

\* generate_srt is called with the merged sentences and an output path.
PipeSerialize ==
    /\ mpc = "done" /\ requests = {1} /\ sresult = <<>>
    /\ \E include_speaker \in BOOLEAN :
          LET sentences == [k \in 1..Len(mresult[1].sentences) |->
                               AsSrtSentence(mresult[1].sentences[k])]
          IN /\ ssentences' = sentences
             /\ skwargs' = [output_path |-> "out.srt",
                            include_speaker |-> include_speaker]
             /\ srt_file' = <<Join(SrtLoop(sentences, 1, include_speaker, <<>>))>>
             /\ sresult' = <<SrtSuccess(sentences, "out.srt")>>
    /\ UNCHANGED <<presult, tvars, pvars, lvars, rvars, fvars, mvars, flvars>>

NextPipeline ==
    \/ \E r \in requests : FuseFind(r)
    \/ \E r \in requests : FuseStore(r)
    \/ \E r \in requests : FuseReturn(r)
    \/ PipeMerge
    \/ MergeStep
    \/ MergeFinish
    \/ PipeSerialize
SpecPipeline == InitPipeline /\ [][NextPipeline]_vars

\* ---- what the resolver is specified to compute
\* max(0, min(u.end, span.end) - max(u.start, span.start))
ClampedOverlap(u, segment) == Max(0, Overlap(u.start_time, u.end_time, segment))

RECURSIVE SumOverlap(_, _)
SumOverlap(u, segments) ==
    IF segments = <<>> THEN 0
    ELSE ClampedOverlap(u, Head(segments)) + SumOverlap(u, Tail(segments))

\* The total overlap of speaker id with the utterance (0 for an id the result does
\* not hold).
TotalOverlap(u, speaker_segments, id) ==
    IF HasKey(speaker_segments, id)
    THEN SumOverlap(u, speaker_segments[KeyIndex(speaker_segments, id)].segs)
    ELSE 0

MaxTotalOverlap(u, speaker_segments) ==
    LET totals == {0} \cup {SumOverlap(u, speaker_segments[j].segs) :
                               j \in 1..Len(speaker_segments)}
    IN CHOOSE m \in totals : \A t \in totals : t <= m

\* C1 (as claimed): whenever some speaker has positive overlap, the resolver's
\* answer is a speaker whose total overlap with the utterance (summed over all of
\* that speaker's spans) is maximal among all speakers.
C1_TotalOverlapMaximal ==
    (rpc = "done" /\ MaxTotalOverlap(utt, speaker_result.speaker_segments) > 0)
        => TotalOverlap(utt, speaker_result.speaker_segments, best)
             = MaxTotalOverlap(utt, speaker_result.speaker_segments)

\* C2 (as claimed): the resolver answers the default identifier if and only if the
\* maximum overlap over all speakers is exactly zero.
C2_SentinelIffZeroOverlap ==
    rpc = "done"
        => (best = DefaultSpeaker
              <=> MaxTotalOverlap(utt, speaker_result.speaker_segments) = 0)


\* ---- what the fusion is specified to return
WellFormedAsr == \A i \in 1..Len(asr_in) : asr_in[i].start_time # NoTime
PositiveDuration(sentence) == sentence.end_time > sentence.start_time

\* The input sentence with the resolver's answer under request r's diarization.
FusedAs(sentence, r) ==
    [sentence EXCEPT !.speaker =
        _find_speaker_for_time(sentence.start_time, sentence.end_time,
                               fdiar[r].speaker_segments)]
FusedAlone(r) == [i \in 1..Len(asr_in) |-> FusedAs(asr_in[i], r)]

\* C3: for sentences that carry start, end and text the fusion does not fail, and
\* its result holds, in input order, one sentence per input sentence of positive
\* duration, with the input's start, end and text and the resolver's speaker.
C3_FusePreservesAndLabels ==
    \A r \in requests :
        (WellFormedAsr /\ fpc[r] \in {"done", "raised"})
            => /\ fpc[r] = "done"
               /\ SelectSeq(Combined(r), PositiveDuration)
                    = SelectSeq(FusedAlone(r), PositiveDuration)

\* C3's case: a finished fusion of two well-formed sentences, one of them labelled
\* with a speaker other than the default.
C3_Witness ==
    /\ requests = {1} /\ fpc[1] = "done" /\ WellFormedAsr /\ Len(asr_in) = 2
    /\ \E k \in 1..Len(fout[1]) :
          /\ PositiveDuration(Combined(1)[k])
          /\ Combined(1)[k].speaker = "spk1"

\* C4 (as claimed): when two requests over the same transcript have both
\* returned, each one's result is the transcript it returns when run alone.
C4_ConcurrentAsAlone ==
    (requests = {1, 2} /\ \A r \in requests : fpc[r] = "done")
        => \A r \in requests : Combined(r) = FusedAlone(r)


\* ---- what the merge is specified to do
\* Sentence i of the input is part of the cue: the cue's text holds its text.
Member(i, cue) ==
    \E k \in 1..(Len(cue.text) - 1) : SubSeq(cue.text, k, k + 1) = TextAt(i)
Members(cue) == {i \in 1..Len(msentences) : Member(i, cue)}

\* The cues emitted so far, the returned ones, and the open accumulator.
EmittedCues ==
    {merged_segments[k] : k \in 1..Len(merged_segments)}
      \cup (IF mresult = <<>> THEN {}
            ELSE {mresult[1].sentences[k] : k \in 1..Len(mresult[1].sentences)})
AllCues == EmittedCues \cup {current_segment[k] : k \in 1..Len(current_segment)}

\* C5: a sentence after the first is merged into the open accumulator iff it has
\* the accumulator's speaker (or both have none), starts at most max_gap after the
\* accumulator's end and ends at most max_duration after the accumulator's start;
\* otherwise the accumulator is emitted and a new one is opened from the sentence.
C5_MergeIffAllThree ==
    [][(mpc = "loop" /\ mi' = mi + 1 /\ current_segment # <<>>) =>
         LET acc == current_segment[1]
             u == msentences[mi + 1]
         IN IF /\ u.speaker = acc.speaker
               /\ u.start_time - acc.end_time <= max_gap
               /\ u.end_time - acc.start_time <= max_duration
            THEN /\ merged_segments' = merged_segments
                 /\ current_segment' =
                      <<[start_time |-> acc.start_time, end_time |-> u.end_time,
                         text |-> acc.text \o <<" ">> \o u.text,
                         speaker |-> acc.speaker]>>
            ELSE /\ merged_segments' = Append(merged_segments, acc)
                 /\ current_segment' = <<u>>]_vars

\* C5's case: two sentences of one speaker whose gap is exactly max_gap (> 0) came
\* out as one cue from the first's start to the second's end.
C5_Witness ==
    /\ mpc = "done" /\ Len(msentences) = 2 /\ max_gap > 0
    /\ msentences[2].start_time - msentences[1].end_time = max_gap
    /\ Len(mresult[1].sentences) = 1
    /\ mresult[1].sentences[1].start_time = msentences[1].start_time
    /\ mresult[1].sentences[1].end_time = msentences[2].end_time

\* C6: at every step and in the result, every cue is built from sentences of one
\* speaker, the cue's own.
C6_OneSpeakerPerCue ==
    \A cue \in AllCues :
        \A i \in Members(cue) : msentences[i].speaker = cue.speaker

\* C6's case: a returned transcript with a cue of two sentences, and two adjacent
\* input sentences of different speakers with no gap between them.
C6_Witness ==
    /\ mpc = "done"
    /\ \E cue \in EmittedCues : Cardinality(Members(cue)) >= 2
    /\ \E i \in 1..(Len(msentences) - 1) :
          /\ msentences[i].speaker # msentences[i + 1].speaker
          /\ msentences[i + 1].start_time = msentences[i].end_time

\* C7: every emitted cue is one input sentence, unchanged, or spans at most
\* max_duration; and every sentence consumed so far is in some cue.
C7_SingleOrWithinDuration ==
    /\ \A cue \in EmittedCues :
          \/ \E i \in 1..Len(msentences) : cue = msentences[i]
          \/ cue.end_time - cue.start_time <= max_duration
    /\ \A i \in 1..mi : \E cue \in AllCues : Member(i, cue)

\* C7's case: a returned cue that is a single sentence longer than max_duration,
\* next to a cue merged from two sentences.
C7_Witness ==
    /\ mpc = "done"
    /\ \E cue \in EmittedCues :
          /\ \E i \in 1..Len(msentences) : cue = msentences[i]
          /\ cue.end_time - cue.start_time > max_duration
    /\ \E cue \in EmittedCues : Cardinality(Members(cue)) = 2


\* ---- what the filter is specified to return
WantedSet == {AsList(GetTargetSpeakers(fkwargs))[k] :
                 k \in 1..Len(AsList(GetTargetSpeakers(fkwargs)))}
KeptPositions == {i \in 1..Len(fsentences) : GetSpeaker(fsentences[i]) \in WantedSet}
\* The k-th smallest member of a set of positions.
KthOf(S, k) == CHOOSE i \in S : Cardinality({j \in S : j <= i}) = k
SpeakersPresent == {GetSpeaker(fsentences[i]) : i \in 1..Len(fsentences)}

\* C8: with a non-empty wanted set the result is the subsequence of the input
\* sentences whose speaker is in the set, in input order and unchanged; it is the
\* input itself when the set holds every speaker of the transcript.
C8_FilterIsSubsequence ==
    (fresult # <<>> /\ WantedSet # {} /\ ~NoTargets(GetTargetSpeakers(fkwargs)))
        => /\ fresult[1].success
           /\ Len(fresult[1].sentences) = Cardinality(KeptPositions)
           /\ \A k \in 1..Len(fresult[1].sentences) :
                 fresult[1].sentences[k] = fsentences[KthOf(KeptPositions, k)]
           /\ (SpeakersPresent \subseteq WantedSet => fresult[1].sentences = fsentences)

\* C8's case: of three sentences the first and the third are kept, the second,
\* of a speaker that is not wanted, is not.
C8_Witness ==
    /\ fresult # <<>> /\ Len(fsentences) = 3 /\ KeptPositions = {1, 3}
    /\ Cardinality(WantedSet) = 2
    /\ fresult[1].sentences = <<fsentences[1], fsentences[3]>>

FileLines == IF srt_file[1] = <<>> THEN <<>> ELSE SplitLines(srt_file[1], <<>>)
IndexLines == [k \in 1..(Len(FileLines) \div 4) |-> FileLines[4 * (k - 1) + 1]]
NonBlank(sentence) == Strip(sentence.text) # <<>>

\* C10 (as claimed): the index lines of the written cue blocks are 1, 2, ..., N
\* in order, N the number of sentences with non-blank text.
C10_IndicesContiguous ==
    (sresult # <<>> /\ sresult[1].success)
        => IndexLines = [k \in 1..Len(SelectSeq(ssentences, NonBlank)) |-> Digits(k)]


\* The text lines of the written cue blocks (the third line of each block), and
\* the sentences that were written.
TextLines == [k \in 1..(Len(FileLines) \div 4) |-> FileLines[4 * (k - 1) + 3]]
Emitted == SelectSeq(ssentences, NonBlank)
\* The default identifier of the resolver, as the text generate_srt is given.
SentinelText == SpeakerText(DefaultSpeaker)

\* C11 (as claimed): the text line of a cue is `[speaker] text` exactly when
\* include_speaker is set and the sentence's speaker is present and is not the
\* default identifier; otherwise it is the text without a tag.
C11_TagIffRealSpeaker ==
    (sresult # <<>> /\ sresult[1].success)
        => /\ Len(TextLines) = Len(Emitted)
           /\ \A k \in 1..Len(Emitted) :
                 TextLines[k] =
                    IF /\ skwargs.include_speaker
                       /\ Emitted[k].speaker # <<>>
                       /\ Emitted[k].speaker # SentinelText
                    THEN Tagged(Emitted[k].speaker, Strip(Emitted[k].text))
                    ELSE Strip(Emitted[k].text)


\* ---- the pipeline's example
\* C12: the transcript [{0,3,hello},{3,6,world}] fused with the diarization
\* {spk0: [{0,6}]}, merged with max_gap 1 and max_duration 10 and written with
\* include_speaker is the single cue block
\*   1 / 00:00:00,000 --> 00:00:06,000 / [spk0] hello world
\* with a newline after each of the three lines.
ExampleTranscript ==
    <<[start_time |-> 0, end_time |-> 3, text |-> Hello, speaker |-> Missing],
      [start_time |-> 3, end_time |-> 6, text |-> World, speaker |-> Missing]>>
ExampleDiarization ==
    _parse_speaker_result(<<[speaker |-> "spk0", start |-> 0, end |-> 6000]>>)
ExampleRun ==
    /\ asr_in = ExampleTranscript
    /\ requests = {1} /\ fdiar[1] = ExampleDiarization
    /\ max_gap = 1 /\ max_duration = 10
    /\ sresult # <<>> /\ skwargs.include_speaker
ExampleFile ==
    <<"1", "\n",
      "0", "0", ":", "0", "0", ":", "0", "0", ",", "0", "0", "0",
      " ", "-", "-", ">", " ",
      "0", "0", ":", "0", "0", ":", "0", "6", ",", "0", "0", "0", "\n",
      "[", "s", "p", "k", "0", "]", " ">> \o Hello \o <<" ">> \o World \o <<"\n">>
C12_ExampleIsOneCue ==
    ExampleRun => (sresult[1].success /\ srt_file = <<ExampleFile>>)

\* C12's case: the example went through the three stages and a file was written.
C12_Witness ==
    /\ ExampleRun /\ fpc[1] = "done" /\ mpc = "done"
    /\ Len(mresult[1].sentences) = 1 /\ srt_file # <<>>


\* ---- what writing and parsing back is specified to give
\* The fields of a sentence the round trip is about.
Core(sentence) ==
    [start_time |-> sentence.start_time, end_time |-> sentence.end_time,
     text |-> sentence.text, speaker |-> sentence.speaker]
CoreOf(sentences) == [k \in 1..Len(sentences) |-> Core(sentences[k])]
RoundTripInput ==
    \A k \in 1..Len(ssentences) :
        ssentences[k].text # <<>> /\ ~HasChar(ssentences[k].speaker, "]")

\* C13 (as claimed): a transcript whose sentences have non-empty text and speakers
\* without `]`, written with its speakers and parsed back, gives the same
\* sentences in the same order: same start, end, text and speaker.
C13_RoundTrip ==
    (RoundTripInput /\ skwargs.include_speaker /\ sresult # <<>> /\ presult # <<>>)
        => /\ presult[1].success
           /\ CoreOf(presult[1].data.sentences) = CoreOf(ssentences)


\* ---- what parsing a document is specified to give
\* The blocks the document was put together from.
DocBlocks ==
    CHOOSE bs \in SeqUpTo(ParseBlockKinds, MaxParseBlocks) : JoinBlocks(bs) = srt_file[1]
\* A block is well-formed: three lines or more, an integer first, then a line
\* that starts with the timestamp-arrow pattern.
WellFormedBlock(block) ==
    LET lines == SplitLines(block, <<>>)
    IN /\ Len(lines) >= 3
       /\ AllDigits(lines[1]) /\ lines[1] # <<>>
       /\ TimeMatch(lines[2])
\* What a well-formed block of these documents says.
UtteranceOf(block) ==
    LET lines == SplitLines(block, <<>>)
    IN [start_time |-> _srt_time_to_seconds(TimeGroup1(lines[2])),
        end_time |-> _srt_time_to_seconds(TimeGroup2(lines[2])),
        text |-> IF Head(lines[3]) = "["
                 THEN SubSeq(lines[3], FirstIndexOf(lines[3], " ") + 1, Len(lines[3]))
                 ELSE lines[3],
        speaker |-> IF Head(lines[3]) = "["
                    THEN SubSeq(lines[3], 2, FirstIndexOf(lines[3], "]") - 1)
                    ELSE <<>>]
WellFormedBlocks == SelectSeq(DocBlocks, WellFormedBlock)
ExpectedUtterances == [k \in 1..Len(WellFormedBlocks) |-> UtteranceOf(WellFormedBlocks[k])]
SkippedBlocks == Len(DocBlocks) - Len(WellFormedBlocks)

\* The parse did not abort, and returned the well-formed blocks in document order.
ParsedBestEffort ==
    /\ presult[1].success
    /\ CoreOf(presult[1].data.sentences) = ExpectedUtterances
\* The result has an entry, besides the sentences and their count, that holds the
\* number of skipped blocks.
ReportsSkipped ==
    \E key \in DOMAIN presult[1].data \ {"sentences", "total_count"} :
        presult[1].data[key] = SkippedBlocks

\* C14 (as claimed): every block with fewer than 3 lines, a non-integer index line
\* or a second line that is no timestamp line is skipped without aborting the
\* parse, the well-formed blocks are returned in document order, and the result
\* reports the number of skipped blocks.
C14_BestEffortWithCount ==
    (srt_file # <<>> /\ presult # <<>>) => (ParsedBestEffort /\ ReportsSkipped)


\* ---- timestamps
\* C15: a well-formed timestamp text converted to its value and back is the same
\* text: nothing is lost at the millisecond, and hours, minutes and seconds come
\* back with 2 digits, the milliseconds with 3.
C15_TimestampRoundTrip ==
    ts_back # <<>>
        => /\ ts_back[1] = ts_text
           /\ IsTimestamp(ts_back[1])

\* C15's case: a timestamp beyond 24 hours with leading zeros in its other fields
\* and a non-zero millisecond came back.
C15_Witness ==
    /\ ts_back # <<>>
    /\ SubSeq(ts_text, 1, 2) = <<"2", "5">>
    /\ SubSeq(ts_text, 4, 5) = <<"0", "9">>
    /\ SubSeq(ts_text, 10, 12) = <<"0", "0", "7">>
    /\ ts_value[1] >= 25 * 3600000 + 9 * 60000 + 7


\* ---- how a failure of a subtitle operation reaches the caller
\* The call is one that fails: an unsupported type, generate_srt without an output
\* path, parse_srt_file on a file that is not there, filter_by_speaker without
\* speakers, merge_segments on a sentence it cannot read.
FailingCall ==
    \/ Dispatch(ptype) \notin SupportedTypes
    \/ Dispatch(ptype) = "generate_srt" /\ skwargs.output_path = ""
    \/ Dispatch(ptype) = "parse_srt" /\ srt_file = <<>>
    \/ Dispatch(ptype) = "filter_by_speaker" /\ NoTargets(GetTargetSpeakers(fkwargs))
    \/ Dispatch(ptype) = "merge_segments"
         /\ \E i \in 1..Len(msentences) : RaisesKeyError(msentences[i])

\* C16: whatever process returns, no exception reaches the caller; and a failing
\* call returns a result with success false and an error message.
C16_FailureIsAResult ==
    ProcessReturned # <<>>
        => /\ ProcessReturned[1].raised = ""
           /\ FailingCall => (~ProcessReturned[1].success /\ ProcessReturned[1].error # "")
           /\ ~FailingCall => ProcessReturned[1].success

\* C16's case: a merge that met an unreadable sentence after a readable one and
\* returned the failure.
C16_Witness ==
    /\ ptype = "merge_segments" /\ mresult # <<>> /\ Len(msentences) = 2
    /\ ~RaisesKeyError(msentences[1]) /\ RaisesKeyError(msentences[2])
    /\ ~mresult[1].success /\ mi = 1


\* ---- ties
\* The speakers whose total overlap with the utterance is the maximum.
TiedSpeakers ==
    {j \in 1..Len(speaker_result.speaker_segments) :
        SumOverlap(utt, speaker_result.speaker_segments[j].segs)
            = MaxTotalOverlap(utt, speaker_result.speaker_segments)}

\* C17 (as claimed): when two or more speakers share the same positive maximal
\* overlap with the utterance, the answer is the one of them that comes first in
\* the iteration order of the diarization result.
C17_FirstOfTiedWins ==
    (/\ rpc = "done"
     /\ MaxTotalOverlap(utt, speaker_result.speaker_segments) > 0
     /\ Cardinality(TiedSpeakers) >= 2)
        => best = speaker_result.speaker_segments[
                      CHOOSE j \in TiedSpeakers : \A k \in TiedSpeakers : j <= k].id


\* ---- zero-duration sentences and the inputs of the fusion
\* C18 (as claimed): no sentence with end = start is in the fused transcript, and
\* the other sentences are there in their input order.
C18_ZeroDurationDropped ==
    \A r \in requests :
        (WellFormedAsr /\ fpc[r] = "done")
            => /\ \A k \in 1..Len(fout[r]) : PositiveDuration(Combined(r)[k])
               /\ [k \in 1..Len(fout[r]) |-> Combined(r)[k].text]
                    = [k \in 1..Len(SelectSeq(asr_in, PositiveDuration)) |->
                          SelectSeq(asr_in, PositiveDuration)[k].text]

\* The sentence objects of the input transcript.
InputObjects == {AsrSentenceIds[i] : i \in 1..Len(AsrSentenceIds)}

\* C19 (as claimed): when combine_with_asr has returned, every sentence of the
\* input transcript has the fields and values it had before the call (the same,
\* possibly absent, speaker), and no sentence of the output is an input sentence.
C19_InputsUnchanged ==
    \A r \in requests :
        fpc[r] = "done"
            => /\ \A id \in InputObjects : heap[id] = asr_in[id]
               /\ \A k \in 1..Len(fout[r]) : fout[r][k] \notin InputObjects


\* ---- the merge as a partition of its input
\* The texts of sentences a..b, joined in order by one space.
RECURSIVE JoinedTexts(_, _)
JoinedTexts(a, b) ==
    IF a = b THEN msentences[a].text
    ELSE JoinedTexts(a, b - 1) \o <<" ">> \o msentences[b].text
Lowest(S) == CHOOSE i \in S : \A j \in S : i <= j
Highest(S) == CHOOSE i \in S : \A j \in S : j <= i
MergedCues == mresult[1].sentences

\* C20: in the returned transcript every input sentence is in exactly one cue,
\* each cue is a run of consecutive input sentences, from the first one's start to
\* the last one's end, with their texts joined in order by one separator; the
\* cues are in input order, the last accumulator among them; and the empty
\* transcript gives the empty transcript without error.
C20_MergeIsPartition ==
    mpc = "done"
        => /\ mresult[1].success /\ mresult[1].raised = ""
           /\ msentences = <<>> => MergedCues = <<>>
           /\ \A i \in 1..Len(msentences) :
                 Cardinality({k \in 1..Len(MergedCues) : Member(i, MergedCues[k])}) = 1
           /\ \A k \in 1..Len(MergedCues) :
                 LET M == Members(MergedCues[k])
                 IN /\ M # {}
                    /\ M = Lowest(M)..Highest(M)
                    /\ MergedCues[k].start_time = msentences[Lowest(M)].start_time
                    /\ MergedCues[k].end_time = msentences[Highest(M)].end_time
                    /\ MergedCues[k].text = JoinedTexts(Lowest(M), Highest(M))
           /\ \A k \in 1..(Len(MergedCues) - 1) :
                 Highest(Members(MergedCues[k])) < Lowest(Members(MergedCues[k + 1]))

\* C20's case: three sentences came out as a cue of the first two and, from the
\* accumulator left open at the end of the input, a cue of the third.
C20_Witness ==
    /\ mpc = "done" /\ Len(msentences) = 3 /\ Len(MergedCues) = 2
    /\ Members(MergedCues[1]) = {1, 2}
    /\ Members(MergedCues[2]) = {3}


\* ---- the text lines of a parsed cue
\* The cues the document was put together from.
DocCues == CHOOSE cues \in TextCueLists : TextDocument(cues) = srt_file[1]

\* C21 (as claimed): every well-formed cue block is parsed to a sentence whose text
\* is all text lines of the block joined by newlines; a `[speaker]` tag in front
\* of the first text line goes to the speaker field and is taken off the text,
\* and every following text line is still in the text.
C21_AllTextLinesKept ==
    presult # <<>>
        => /\ presult[1].success
           /\ Len(presult[1].data.sentences) = Len(DocCues)
           /\ \A k \in 1..Len(DocCues) :
                 /\ presult[1].data.sentences[k].text = Join(DocCues[k].lines)
                 /\ presult[1].data.sentences[k].speaker = DocCues[k].speaker


\* ---- timestamps that are not well-formed
\* The cues the document was put together from, and the ones whose two timestamps
\* are well-formed.
DocTimedCues == CHOOSE cues \in TimedCueLists : TimedDocument(cues) = srt_file[1]
WellTimed(cue) == cue.start \in GoodTimeTexts /\ cue.end \in GoodTimeTexts
WellTimedCues == SelectSeq(DocTimedCues, WellTimed)
\* The conversion rejects every timestamp of the document that is not well-formed.
BadTimestampsRejected ==
    \A k \in 1..Len(DocTimedCues) :
        /\ DocTimedCues[k].start \in BadTimeTexts
              => RaisesFormatError(DocTimedCues[k].start)
        /\ DocTimedCues[k].end \in BadTimeTexts
              => RaisesFormatError(DocTimedCues[k].end)
\* The parse went through and returned the cues with well-formed timestamps only.
BadBlocksSkipped ==
    /\ presult[1].success
    /\ Len(presult[1].data.sentences) = Len(WellTimedCues)
    /\ \A k \in 1..Len(WellTimedCues) :
          /\ presult[1].data.sentences[k].start_time
                = _srt_time_to_seconds(WellTimedCues[k].start)
          /\ presult[1].data.sentences[k].end_time
                = _srt_time_to_seconds(WellTimedCues[k].end)

BlocksWritten == Len(FileLines) \div 4

\* C24 (as claimed): the subtitle_count of a successful generate_srt is the number
\* of cue blocks it wrote, whatever the transcript, blank texts included.
C24_CountIsBlocksWritten ==
    (sresult # <<>> /\ sresult[1].success)
        => sresult[1].subtitle_count = BlocksWritten


\* ---- the life cycle of a model object
\* Every call of generate so far was made with is_loaded true and on a handle that
\* had been assigned.
GenerateOnlyWhenLoaded ==
    \A c \in generate_calls : c.is_loaded /\ c.handle # NoHandle
\* What one call does.
\* predict on a model that is not loaded loads it first: generate is called on
\* the new handle with is_loaded true, or the load fails and generate is not called.
PredictLoadsFirst ==
    (returned'.call = "predict" /\ ~is_loaded)
        => \/ /\ returned'.outcome = LoadRaised
              /\ generate_calls' = generate_calls
              /\ ~is_loaded' /\ Handle' = Handle
           \/ /\ returned'.outcome \in {"success", "failure"}
              /\ is_loaded'
              /\ Handle' \notin {NoHandle, Handle}
              /\ generate_calls' =
                    generate_calls \cup {[is_loaded |-> TRUE, handle |-> Handle']}
UnloadClears == returned'.call = "unload_model" => ~is_loaded'
\* A load_model that fails changes neither is_loaded nor the handle: a model that
\* was not loaded is still not loaded.
FailedLoadChangesNothing ==
    (returned'.call = "load_model" /\ returned'.outcome = LoadRaised)
        => /\ is_loaded' = is_loaded /\ Handle' = Handle
           /\ ~is_loaded => ~is_loaded'
LoadSets ==
    (returned'.call = "load_model" /\ returned'.outcome = "True")
        => is_loaded' /\ Handle' # NoHandle

=============================================================================
